---- MODULE Spec2Model ----
(***************************************************************************)
(* Model of cmd/embed_audio.py: embedding an MP3 into one slide of a PPTX  *)
(* package.  The file system, the scratch directory and the position of    *)
(* embed_audio() in its pipeline are the state; file names, relationship   *)
(* ids and shape ids are sequences of tokens so that the string handling   *)
(* of the code (startswith / endswith / replace / int / str) is computed.  *)
(***************************************************************************)
EXTENDS Integers, Sequences, FiniteSets, TLC

\* fs          the package files on disk, by path (NoFile: no such file)
\* fs0         fs as it was when the current run was started (history)
\* scratch     the directory temp_pptx_embed (NoDir: it does not exist)
\* pc          where embed_audio() stands; "idle" before the first call,
\*             "returned" once main() has exited
\* runs        number of invocations so far
\* slide_num, pptx_file, mp3_file      the arguments of the current run
\* media_num, icon_num, output_file    locals of embed_audio()
\* result, exit_code                   its return value and main()'s exit code
VARIABLES fs, fs0, scratch, pc, runs,
          slide_num, pptx_file, mp3_file,
          media_num, icon_num, output_file, result, exit_code

vars == <<fs, fs0, scratch, pc, runs, slide_num, pptx_file, mp3_file,
          media_num, icon_num, output_file, result, exit_code>>

\* ---------------------------------------------------------------- bounds
MaxRuns == 2
MaxSlides == 2

\* ------------------------------------------------- strings as token lists
Digit == <<"0", "1", "2", "3", "4", "5", "6", "7", "8", "9">>

Digits == {Digit[i] : i \in 1..10}

DigitVal(c) == (CHOOSE i \in 1..10 : Digit[i] = c) - 1

RECURSIVE DecimalValue(_)
DecimalValue(s) ==
    IF s = <<>> THEN 0
    ELSE 10 * DecimalValue(SubSeq(s, 1, Len(s) - 1)) + DigitVal(s[Len(s)])

\* int(s): optional sign, then one or more digits; anything else raises
\* ValueError (ok = FALSE).
py_int(s) ==
    LET signed == Len(s) > 0 /\ s[1] \in {"+", "-"}
        body   == IF signed THEN Tail(s) ELSE s
        good   == Len(body) > 0 /\ \A i \in 1..Len(body) : body[i] \in Digits
    IN  IF ~good THEN [ok |-> FALSE, val |-> 0]
        ELSE [ok |-> TRUE,
              val |-> IF signed /\ s[1] = "-" THEN 0 - DecimalValue(body)
                      ELSE DecimalValue(body)]

\* str(n) for n >= 0
RECURSIVE py_str(_)
py_str(n) ==
    IF n < 10 THEN <<Digit[n + 1]>>
    ELSE py_str(n \div 10) \o <<Digit[(n % 10) + 1]>>

\* s.replace(tok, '')
py_replace(s, tok) == SelectSeq(s, LAMBDA c : c # tok)

startswith(s, tok) == Len(s) > 0 /\ s[1] = tok

endswith(s, tok) == Len(s) > 0 /\ s[Len(s)] = tok

Max(a, b) == IF a >= b THEN a ELSE b

RECURSIVE SetMax(_, _)
SetMax(S, floor) ==
    IF S = {} THEN floor
    ELSE LET x == CHOOSE y \in S : TRUE
         IN  Max(x, SetMax(S \ {x}, floor))

\* ------------------------------------------------------------- file names
MediaName(n) == <<"media">> \o py_str(n) \o <<".mp3">>

ImageName(n) == <<"image">> \o py_str(n) \o <<".png">>

NoFile == [absent |-> TRUE]

Exists(x) == "absent" \notin DOMAIN x

\* ------------------------------------------------ get_next_media_number
\* media is the ppt/media directory: [exists, files], files a function from
\* file name to content.
MediaNumbers(media) ==
    {py_int(py_replace(py_replace(f, "media"), ".mp3")).val :
        f \in {g \in DOMAIN media.files :
                  /\ startswith(g, "media")
                  /\ endswith(g, ".mp3")
                  /\ py_int(py_replace(py_replace(g, "media"), ".mp3")).ok}}

get_next_media_number_count(media) ==
    IF ~media.exists THEN 1
    ELSE Cardinality({g \in DOMAIN media.files :
                         startswith(g, "media") /\ endswith(g, ".mp3")}) + 1

get_next_media_number(media) ==
    IF ~media.exists THEN 1 ELSE SetMax(MediaNumbers(media), 0) + 1

\* --------------------------------------------------------- get_next_rid
\* rels is a parsed .rels file: [ok, edges], edges a sequence of
\* [Id, Type, Target].
RidNumbers(rels) ==
    {py_int(py_replace(rels.edges[i].Id, "rId")).val :
        i \in {j \in 1..Len(rels.edges) :
                  /\ startswith(rels.edges[j].Id, "rId")
                  /\ py_int(py_replace(rels.edges[j].Id, "rId")).ok}}

get_next_rid(rels) == SetMax(RidNumbers(rels), 0) + 1

\* ------------------------------------------------ ensure_*_content_type
\* ct is [Content_Types].xml: [ok, defaults], defaults a sequence of
\* [ext, mime]; ok = FALSE is a file ET.parse() raises on.
Declares(ct, e) == \E i \in 1..Len(ct.defaults) : ct.defaults[i].ext = e

ensure_content_type_always(ct, e, m) ==
    [ct EXCEPT !.defaults = <<[ext |-> e, mime |-> m]>> \o @]

ensure_content_type(ct, e, m) ==
    IF Declares(ct, e) THEN ct
    ELSE [ct EXCEPT !.defaults = <<[ext |-> e, mime |-> m]>> \o @]

ensure_mp3_content_type(ct) == ensure_content_type(ct, "mp3", "audio/mpeg")

ensure_png_content_type(ct) == ensure_content_type(ct, "png", "image/png")

\* ---------------------------------------------------- get_next_shape_id
\* slide is a parsed slideN.xml: [ok, spTree, nodes]; nodes are the drawing
\* elements, each carrying the id attribute of its cNvPr (<<>> when the
\* attribute is missing or empty).
ShapeIds(slide) ==
    {py_int(slide.nodes[i].id).val :
        i \in {j \in 1..Len(slide.nodes) :
                  slide.nodes[j].id # <<>> /\ py_int(slide.nodes[j].id).ok}}

get_next_shape_id_count(slide) == Len(slide.nodes) + 1

get_next_shape_id(slide) == SetMax(ShapeIds(slide), 1) + 1

\* ---------------------------------------------------- add_audio_to_slide
Shape(i) == [id |-> i, kind |-> "sp", link |-> <<>>, media |-> <<>>, blip |-> <<>>]

AudioPic(shape_id) ==
    [id    |-> py_str(shape_id),
     kind  |-> "pic",
     link  |-> <<"rId", "Audio">>,
     media |-> <<"rId", "Media">>,
     blip  |-> <<"rId", "Icon">>]

\* status: "ok" (returns True), "false" (returns False), "raise" (exception)
add_audio_to_slide_anyslide(dir, n, mnum, inum) ==
    IF n \notin DOMAIN dir.slides THEN [status |-> "ok", dir |-> dir]
    ELSE IF ~dir.slides[n].ok THEN [status |-> "raise", dir |-> dir]
    ELSE IF ~dir.slides[n].spTree THEN [status |-> "false", dir |-> dir]
    ELSE [status |-> "ok",
          dir |-> [dir EXCEPT !.slides[n].nodes =
                      Append(@, AudioPic(get_next_shape_id(dir.slides[n])))]]

add_audio_to_slide(dir, n, mnum, inum) ==
    IF n \notin DOMAIN dir.slides THEN [status |-> "false", dir |-> dir]
    ELSE IF ~dir.slides[n].ok THEN [status |-> "raise", dir |-> dir]
    ELSE IF ~dir.slides[n].spTree THEN [status |-> "false", dir |-> dir]
    ELSE [status |-> "ok",
          dir |-> [dir EXCEPT !.slides[n].nodes =
                      Append(@, AudioPic(get_next_shape_id(dir.slides[n])))]]

\* ----------------------------------------------------- add_relationships
MediaTarget(name) == <<"../media/">> \o name

NewEdges(mnum, inum) ==
    << [Id |-> <<"rId", "Media">>, Type |-> "media",
        Target |-> MediaTarget(MediaName(mnum))],
       [Id |-> <<"rId", "Audio">>, Type |-> "audio",
        Target |-> MediaTarget(MediaName(mnum))],
       [Id |-> <<"rId", "Icon">>, Type |-> "image",
        Target |-> MediaTarget(ImageName(inum))] >>

\* next_rid = get_next_rid(rels_file) is computed and not used: the three
\* edges get the fixed ids rIdMedia, rIdAudio and rIdIcon.
add_relationships_newroot(dir, n, mnum, inum) ==
    IF n \in DOMAIN dir.rels /\ ~dir.rels[n].ok
    THEN [status |-> "raise", dir |-> dir]
    ELSE [status |-> "ok",
          dir |-> [dir EXCEPT !.rels =
                      [k \in DOMAIN dir.rels \cup {n} |->
                          IF k = n THEN [ok |-> TRUE, edges |-> NewEdges(mnum, inum)]
                          ELSE dir.rels[k]]]]

add_relationships(dir, n, mnum, inum) ==
    IF n \in DOMAIN dir.rels /\ ~dir.rels[n].ok
    THEN [status |-> "raise", dir |-> dir]
    ELSE LET old == IF n \in DOMAIN dir.rels THEN dir.rels[n].edges ELSE <<>>
             new == [ok |-> TRUE, edges |-> old \o NewEdges(mnum, inum)]
         IN  [status |-> "ok",
              dir |-> [dir EXCEPT !.rels =
                          [k \in DOMAIN dir.rels \cup {n} |->
                              IF k = n THEN new ELSE dir.rels[k]]]]

\* ------------------------------------------------- unzip_pptx / zip_pptx
NoDir == [absent |-> TRUE]

MergeFn(old, new) ==
    [k \in DOMAIN old \cup DOMAIN new |->
        IF k \in DOMAIN new THEN new[k] ELSE old[k]]

\* extractall() writes the archive's entries into extract_dir; entries
\* already there under other names stay.
unzip_pptx(dir, file) ==
    IF ~Exists(dir) THEN file.tree
    ELSE [ct     |-> file.tree.ct,
          media  |-> [exists |-> dir.media.exists \/ file.tree.media.exists,
                      files  |-> MergeFn(dir.media.files, file.tree.media.files)],
          slides |-> MergeFn(dir.slides, file.tree.slides),
          rels   |-> MergeFn(dir.rels, file.tree.rels)]

\* os.walk() stores files only: a directory without files is not archived.
zip_pptx(dir) ==
    [zipOk |-> TRUE,
     tree  |-> [dir EXCEPT !.media.exists = (DOMAIN dir.media.files # {})]]

\* os.path.splitext(path)[0]
ExtTokens == {".pptx"}

splitext(path) ==
    IF Len(path) > 1 /\ path[Len(path)] \in ExtTokens
    THEN SubSeq(path, 1, Len(path) - 1)
    ELSE path

OutputFile_inplace(path) == path

OutputFile(path) == splitext(path) \o <<"_with_audio", ".pptx">>

\* try: ... finally: every return or exception inside the try block runs
\* the cleanup; the validation returns precede the try block.
ExitPath_nofinally(inTry) == "returned"

ExitPath(inTry) == IF inTry THEN "cleanup" ELSE "returned"

\* the order of the steps inside the try block
StepAfter_zipfirst(step) ==
    CASE step = "extract" -> "assets"
      [] step = "assets"  -> "ct"
      [] step = "ct"      -> "zip"
      [] step = "zip"     -> "slide"
      [] step = "slide"   -> "rels"
      [] step = "rels"    -> "cleanup"

StepAfter(step) ==
    CASE step = "extract" -> "assets"
      [] step = "assets"  -> "ct"
      [] step = "ct"      -> "slide"
      [] step = "slide"   -> "rels"
      [] step = "rels"    -> "zip"
      [] step = "zip"     -> "cleanup"

\* sys.exit(0 if success else 1)
ExitCode(success) == IF success THEN 0 ELSE 1

\* ----------------------------------------------------- input packages
Files(S, c) == [n \in S |-> c]

NamePool == { <<"media", "1", ".mp3">>,
              <<"media", "2", ".mp3">>,
              <<"media", "+", "2", ".mp3">>,
              <<"media", "x", ".mp3">>,
              <<"image", "1", ".png">> }

MediaPool == {[exists |-> FALSE, files |-> Files({}, "orig")]}
             \cup {[exists |-> TRUE, files |-> Files(S, "orig")] :
                      S \in SUBSET NamePool}

XmlDefault == [ext |-> "xml", mime |-> "application/xml"]

CtPool == {[ok |-> FALSE, defaults |-> <<>>]}
          \cup {[ok |-> TRUE, defaults |-> a \o b \o <<XmlDefault>>] :
                  a \in {<<>>, <<[ext |-> "mp3", mime |-> "audio/mpeg"]>>,
                         <<[ext |-> "mp3", mime |-> "audio/mp3"]>>},
                  b \in {<<>>, <<[ext |-> "png", mime |-> "image/png"]>>}}

NodesPool == { <<Shape(<<"1">>), Shape(<<"2">>)>>,
               <<Shape(<<"1">>), Shape(<<"4">>)>>,
               <<Shape(<<"0">>)>>,
               <<Shape(<<"x">>), Shape(<<>>)>>,
               <<>> }

SlidePool == {[ok |-> FALSE, spTree |-> FALSE, nodes |-> <<>>],
              [ok |-> TRUE, spTree |-> FALSE, nodes |-> <<>>]}
             \cup {[ok |-> TRUE, spTree |-> TRUE, nodes |-> ns] : ns \in NodesPool}

LayoutEdge(i) == [Id |-> i, Type |-> "slideLayout",
                  Target |-> <<"../slideLayouts/", "slideLayout1.xml">>]

RelsPool == {[ok |-> FALSE, edges |-> <<>>],
             [ok |-> TRUE, edges |-> <<>>],
             [ok |-> TRUE, edges |-> <<LayoutEdge(<<"rId", "1">>)>>],
             [ok |-> TRUE, edges |-> <<LayoutEdge(<<"rId", "3">>),
                                       LayoutEdge(<<"rId", "x">>)>>]}

BaseMedia == [exists |-> TRUE, files |-> Files({}, "orig")]

BaseCt == [ok |-> TRUE, defaults |-> <<XmlDefault>>]

BaseSlide == [ok |-> TRUE, spTree |-> TRUE,
              nodes |-> <<Shape(<<"1">>), Shape(<<"2">>)>>]

BaseRels == [ok |-> TRUE, edges |-> <<LayoutEdge(<<"rId", "1">>)>>]

\* a package of n slides whose first slide is s with relationship part r
\* (hasRels = FALSE: slide 1 has no .rels part)
Package(z, c, m, s, r, hasRels, n) ==
    [zipOk |-> z,
     tree  |-> [ct     |-> c,
                media  |-> m,
                slides |-> [k \in 1..n |-> IF k = 1 THEN s ELSE BaseSlide],
                rels   |-> [k \in (IF hasRels THEN 1..n ELSE 2..n) |->
                               IF k = 1 THEN r ELSE BaseRels]]]

PackagesOf(n) ==
    {Package(TRUE, BaseCt, m, BaseSlide, BaseRels, TRUE, n) : m \in MediaPool}
    \cup {Package(TRUE, c, BaseMedia, BaseSlide, BaseRels, TRUE, n) : c \in CtPool}
    \cup {Package(TRUE, BaseCt, BaseMedia, s, BaseRels, TRUE, n) : s \in SlidePool}
    \cup {Package(TRUE, BaseCt, BaseMedia, BaseSlide, r, TRUE, n) : r \in RelsPool}
    \cup {Package(TRUE, BaseCt, BaseMedia, BaseSlide, BaseRels, FALSE, n),
          Package(FALSE, BaseCt, BaseMedia, BaseSlide, BaseRels, TRUE, n)}

Packages == UNION {PackagesOf(n) : n \in 1..MaxSlides}

\* ------------------------------------------------------------- paths
BasePaths == { <<"deck", ".pptx">>, <<"deck">> }

MissingPath == <<"missing", ".pptx">>

RECURSIVE Outputs(_, _)
Outputs(path, k) ==
    IF k = 0 THEN {path} ELSE {path} \cup Outputs(OutputFile(path), k - 1)

FsPaths == UNION {Outputs(b, MaxRuns) : b \in BasePaths} \cup {MissingPath}

AudioFiles == {"audio.mp3"}

AudioArgs == {"audio.mp3", "missing.mp3"}

\* ------------------------------------------------------ asset placement
\* icon_num = media_num
icon_number(mnum) == mnum

\* shutil.copy2(mp3_file, media{N}.mp3); create_audio_icon(image{K}.png)
place_assets(dir, mnum, inum) ==
    [dir EXCEPT !.media =
        [exists |-> TRUE,
         files  |-> MergeFn(MergeFn(dir.media.files, Files({MediaName(mnum)}, "mp3")),
                            Files({ImageName(inum)}, "icon"))]]

\* ------------------------------------------------------------ the state
Init ==
    /\ \E b \in BasePaths, pkg \in Packages :
          fs = [p \in FsPaths |-> IF p = b THEN pkg ELSE NoFile]
    /\ fs0 = fs
    /\ scratch = NoDir
    /\ pc = "idle"
    /\ runs = 0
    /\ slide_num = 0
    /\ pptx_file = MissingPath
    /\ mp3_file = "missing.mp3"
    /\ media_num = 0
    /\ icon_num = 0
    /\ output_file = <<>>
    /\ result = FALSE
    /\ exit_code = -1

\* return inside embed_audio(); main() exits once control is back
Return(res, inTry) ==
    /\ result' = res
    /\ pc' = ExitPath(inTry)
    /\ exit_code' = IF ExitPath(inTry) = "returned" THEN ExitCode(res) ELSE exit_code

\* main(): parse the arguments and call embed_audio()
Invoke ==
    /\ pc \in {"idle", "returned"}
    /\ runs < MaxRuns
    /\ \E s \in 0..(MaxSlides + 1),
          p \in {q \in FsPaths : Exists(fs[q])} \cup {MissingPath},
          a \in AudioArgs :
          /\ slide_num' = s
          /\ pptx_file' = p
          /\ mp3_file' = a
    /\ runs' = runs + 1
    /\ fs0' = fs
    /\ pc' = "validate"
    /\ media_num' = 0
    /\ icon_num' = 0
    /\ output_file' = <<>>
    /\ result' = FALSE
    /\ exit_code' = -1
    /\ UNCHANGED <<fs, scratch>>

\* the three input checks before the try block
Validate ==
    /\ pc = "validate"
    /\ IF \/ ~Exists(fs[pptx_file])
          \/ mp3_file \notin AudioFiles
          \/ slide_num < 1
       THEN Return(FALSE, FALSE)
       ELSE /\ pc' = "extract"
            /\ UNCHANGED <<result, exit_code>>
    /\ UNCHANGED <<fs, fs0, scratch, runs, slide_num, pptx_file, mp3_file,
                   media_num, icon_num, output_file>>

\* step 1
Extract ==
    /\ pc = "extract"
    /\ IF fs[pptx_file].zipOk
       THEN /\ scratch' = unzip_pptx(scratch, fs[pptx_file])
            /\ pc' = StepAfter("extract")
            /\ UNCHANGED <<result, exit_code>>
       ELSE /\ Return(FALSE, TRUE)
            /\ UNCHANGED scratch
    /\ UNCHANGED <<fs, fs0, runs, slide_num, pptx_file, mp3_file,
                   media_num, icon_num, output_file>>

\* steps 2 to 4
Assets ==
    /\ pc = "assets"
    /\ media_num' = get_next_media_number(scratch.media)
    /\ icon_num' = icon_number(media_num')
    /\ scratch' = place_assets(scratch, media_num', icon_num')
    /\ pc' = StepAfter("assets")
    /\ UNCHANGED <<fs, fs0, runs, slide_num, pptx_file, mp3_file,
                   output_file, result, exit_code>>

\* step 5
ContentTypes ==
    /\ pc = "ct"
    /\ IF scratch.ct.ok
       THEN /\ scratch' = [scratch EXCEPT !.ct =
                              ensure_png_content_type(ensure_mp3_content_type(@))]
            /\ pc' = StepAfter("ct")
            /\ UNCHANGED <<result, exit_code>>
       ELSE /\ Return(FALSE, TRUE)
            /\ UNCHANGED scratch
    /\ UNCHANGED <<fs, fs0, runs, slide_num, pptx_file, mp3_file,
                   media_num, icon_num, output_file>>

\* step 6
SlideStep ==
    /\ pc = "slide"
    /\ LET r == add_audio_to_slide(scratch, slide_num, media_num, icon_num)
       IN  IF r.status = "ok"
           THEN /\ scratch' = r.dir
                /\ pc' = StepAfter("slide")
                /\ UNCHANGED <<result, exit_code>>
           ELSE /\ Return(FALSE, TRUE)
                /\ UNCHANGED scratch
    /\ UNCHANGED <<fs, fs0, runs, slide_num, pptx_file, mp3_file,
                   media_num, icon_num, output_file>>

\* step 7
RelsStep ==
    /\ pc = "rels"
    /\ LET r == add_relationships(scratch, slide_num, media_num, icon_num)
       IN  IF r.status = "ok"
           THEN /\ scratch' = r.dir
                /\ pc' = StepAfter("rels")
                /\ UNCHANGED <<result, exit_code>>
           ELSE /\ Return(FALSE, TRUE)
                /\ UNCHANGED scratch
    /\ UNCHANGED <<fs, fs0, runs, slide_num, pptx_file, mp3_file,
                   media_num, icon_num, output_file>>

\* steps 8 and 9, return True
Zip ==
    /\ pc = "zip"
    /\ output_file' = OutputFile(pptx_file)
    /\ fs' = [fs EXCEPT ![output_file'] = zip_pptx(scratch)]
    /\ result' = TRUE
    /\ pc' = StepAfter("zip")
    /\ UNCHANGED <<fs0, scratch, runs, slide_num, pptx_file, mp3_file,
                   media_num, icon_num, exit_code>>

\* finally: remove the scratch directory; back in main(), sys.exit()
Cleanup ==
    /\ pc = "cleanup"
    /\ scratch' = NoDir
    /\ pc' = "returned"
    /\ exit_code' = ExitCode(result)
    /\ UNCHANGED <<fs, fs0, runs, slide_num, pptx_file, mp3_file,
                   media_num, icon_num, output_file, result>>

Next ==
    \/ Invoke
    \/ Validate
    \/ Extract
    \/ Assets
    \/ ContentTypes
    \/ SlideStep
    \/ RelsStep
    \/ Zip
    \/ Cleanup

Spec == Init /\ [][Next]_vars

\* =================================================================
\* Properties
\* =================================================================
AllDigits(s) == Len(s) > 0 /\ \A i \in 1..Len(s) : s[i] \in Digits

\* the package the current run was given
InputTree == fs0[pptx_file].tree

InputEdges ==
    IF slide_num \in DOMAIN InputTree.rels THEN InputTree.rels[slide_num].edges
    ELSE <<>>

\* numbers of the ids of the form rId{digits} among a sequence of edges
RIdNumbersOf(edges) ==
    {DecimalValue(Tail(edges[i].Id)) :
        i \in {j \in 1..Len(edges) :
                  /\ Len(edges[j].Id) > 1
                  /\ edges[j].Id[1] = "rId"
                  /\ AllDigits(Tail(edges[j].Id))}}

\* C1: once a run has updated the slide's relationship part, every edge it
\* added has an id rId{N} with N above every rId number that was present,
\* the added ids differ from each other and from every id already present,
\* and so all ids of the part are pairwise distinct.
C1_RelationshipIdsFresh ==
    (pc = "zip") =>
        LET new   == scratch.rels[slide_num].edges
            added == (Len(InputEdges) + 1)..Len(new)
        IN  /\ \A i \in added :
                  /\ Len(new[i].Id) > 1
                  /\ new[i].Id[1] = "rId"
                  /\ AllDigits(Tail(new[i].Id))
                  /\ \A n \in RIdNumbersOf(InputEdges) :
                        DecimalValue(Tail(new[i].Id)) > n
            /\ \A i \in added : \A j \in 1..Len(new) :
                  i # j => new[i].Id # new[j].Id

\* files of ppt/media in the package the run was given
InputMedia == InputTree.media.files

\* C2: the icon of a run is written under a name that no file of ppt/media
\* had before the run, so every file that was there keeps its content.
C2_IconDoesNotOverwrite ==
    (pc = "ct") =>
        /\ ImageName(icon_num) \notin DOMAIN InputMedia
        /\ \A f \in DOMAIN InputMedia : scratch.media.files[f] = InputMedia[f]

Mp3Assets(files) ==
    {f \in DOMAIN files : Len(f) > 1 /\ f[1] = "media" /\ f[Len(f)] = ".mp3"}

\* file names of the exact form media{digits}.mp3
NumberedMp3(files) ==
    {f \in DOMAIN files :
        /\ Len(f) > 2
        /\ f[1] = "media"
        /\ f[Len(f)] = ".mp3"
        /\ AllDigits(SubSeq(f, 2, Len(f) - 1))}

NumberOf(f) == DecimalValue(SubSeq(f, 2, Len(f) - 1))

\* C3 as stated: with N media*.mp3 assets in the package, the run adds
\* exactly one mp3 asset, named media{N+1}.mp3, a name no asset had.
C3_NamedCountPlusOne ==
    (pc = "ct") =>
        /\ media_num = Cardinality(Mp3Assets(InputMedia)) + 1
        /\ MediaName(media_num) \notin DOMAIN InputMedia
        /\ Mp3Assets(scratch.media.files)
              = Mp3Assets(InputMedia) \cup {MediaName(media_num)}

\* C3 as amended: the run adds exactly one mp3 asset, under a name no file
\* of ppt/media had, numbered above every existing media{digits}.mp3; the
\* number is N+1 when the existing mp3 assets are exactly media1.mp3 ..
\* media{N}.mp3.
C3_NamedAboveMax ==
    (pc = "ct") =>
        /\ MediaName(media_num) \notin DOMAIN InputMedia
        /\ Mp3Assets(scratch.media.files)
              = Mp3Assets(InputMedia) \cup {MediaName(media_num)}
        /\ \A f \in Mp3Assets(InputMedia) : scratch.media.files[f] = InputMedia[f]
        /\ \A f \in NumberedMp3(InputMedia) : media_num > NumberOf(f)
        /\ (Mp3Assets(InputMedia)
               = {MediaName(k) : k \in 1..Cardinality(Mp3Assets(InputMedia))})
              => media_num = Cardinality(Mp3Assets(InputMedia)) + 1

\* a package whose only mp3 asset is media2.mp3 (a gap at 1) got media3.mp3
C3_Witness ==
    /\ pc = "ct"
    /\ Mp3Assets(InputMedia) = {MediaName(2)}
    /\ media_num = 3
    /\ MediaName(3) \in DOMAIN scratch.media.files

\* C4: the media number of a run is 1 when ppt/media is absent or holds no
\* file named media{digits}.mp3 and otherwise one more than the largest
\* such number; other file names do not influence it.
C4_MediaNumberFromNumberedOnly ==
    (pc = "ct") =>
        media_num = IF NumberedMp3(InputMedia) = {} THEN 1
                    ELSE SetMax({NumberOf(f) : f \in NumberedMp3(InputMedia)}, 0) + 1

InputNodes == InputTree.slides[slide_num].nodes

\* the shape ids Python's int() reads from a sequence of drawing nodes
ParsedIds(nodes) ==
    {py_int(nodes[i].id).val :
        i \in {j \in 1..Len(nodes) : nodes[j].id # <<>> /\ py_int(nodes[j].id).ok}}

DistinctParsedIds(nodes) ==
    \A i, j \in 1..Len(nodes) :
        (/\ i # j
         /\ nodes[i].id # <<>> /\ py_int(nodes[i].id).ok
         /\ nodes[j].id # <<>> /\ py_int(nodes[j].id).ok)
        => py_int(nodes[i].id).val # py_int(nodes[j].id).val

\* C5 as stated: the run appends exactly one drawing node to the slide and
\* its id is max+1 over the ids already in the slide, 2 when none parses.
C5_ShapeIdMaxPlusOne ==
    (pc = "rels") =>
        LET new == scratch.slides[slide_num].nodes
        IN  /\ Len(new) = Len(InputNodes) + 1
            /\ SubSeq(new, 1, Len(InputNodes)) = InputNodes
            /\ new[Len(new)].id =
                  py_str(IF ParsedIds(InputNodes) = {} THEN 2
                         ELSE SetMax(ParsedIds(InputNodes),
                                     CHOOSE x \in ParsedIds(InputNodes) : TRUE) + 1)

\* C5 as amended: the run appends exactly one drawing node; its id is one
\* more than the larger of 1 and the largest id that parses, so it exceeds
\* every prior id and distinct ids stay distinct.
C5_ShapeIdAboveAll ==
    (pc = "rels") =>
        LET new == scratch.slides[slide_num].nodes
            top == IF ParsedIds(InputNodes) = {} THEN 1
                   ELSE Max(1, SetMax(ParsedIds(InputNodes),
                                      CHOOSE x \in ParsedIds(InputNodes) : TRUE))
        IN  /\ Len(new) = Len(InputNodes) + 1
            /\ SubSeq(new, 1, Len(InputNodes)) = InputNodes
            /\ new[Len(new)].id = py_str(top + 1)
            /\ \A v \in ParsedIds(InputNodes) : top + 1 > v
            /\ DistinctParsedIds(InputNodes) => DistinctParsedIds(new)

\* a slide whose only shape id is 0 received a node with id 2
C5_Witness ==
    /\ pc = "rels"
    /\ ParsedIds(InputNodes) = {0}
    /\ scratch.slides[slide_num].nodes[Len(InputNodes) + 1].id = <<"2">>

\* a second embed into the same slide: ids 1, 2, 3 and now 4
C5_WitnessRepeated ==
    /\ pc = "rels"
    /\ runs = 2
    /\ ParsedIds(InputNodes) = {1, 2, 3}
    /\ scratch.slides[slide_num].nodes[Len(InputNodes) + 1].id = <<"4">>

CountDefaults(ct, e) ==
    Cardinality({i \in 1..Len(ct.defaults) : ct.defaults[i].ext = e})

MimesOf(ct, e) ==
    {ct.defaults[i].mime : i \in {j \in 1..Len(ct.defaults) : ct.defaults[j].ext = e}}

InputCt == InputTree.ct

OutputCt == fs[output_file].tree.ct

Succeeded == pc = "returned" /\ result

\* C6 as stated: on a registry that declares the extension the ensure
\* operation changes nothing, applied twice to any registry it leaves
\* exactly one Default entry for the extension, and the registry of every
\* package a run produced holds exactly one Default entry for mp3, which is
\* audio/mpeg, and at most one for png.
C6_EnsureIdempotentAnyRegistry ==
    /\ (pc = "ct" /\ scratch.ct.ok) =>
          /\ Declares(scratch.ct, "mp3")
                => ensure_mp3_content_type(scratch.ct) = scratch.ct
          /\ Declares(scratch.ct, "png")
                => ensure_png_content_type(scratch.ct) = scratch.ct
          /\ CountDefaults(ensure_mp3_content_type(
                              ensure_mp3_content_type(scratch.ct)), "mp3") = 1
          /\ CountDefaults(ensure_png_content_type(
                              ensure_png_content_type(scratch.ct)), "png") = 1
    /\ Succeeded =>
          /\ CountDefaults(OutputCt, "mp3") = 1
          /\ MimesOf(OutputCt, "mp3") = {"audio/mpeg"}
          /\ CountDefaults(OutputCt, "png") <= 1

\* C6 as amended: on a registry that declares the extension the ensure
\* operation changes nothing; applied twice to a registry with at most one
\* Default entry for the extension it leaves exactly one, the same as after
\* one application; the registry of a package produced from such a registry
\* holds exactly one Default entry for mp3 (the declaration the input had,
\* audio/mpeg when it had none) and exactly one for png.
C6_EnsureIdempotent ==
    /\ (pc = "ct" /\ scratch.ct.ok) =>
          /\ Declares(scratch.ct, "mp3")
                => ensure_mp3_content_type(scratch.ct) = scratch.ct
          /\ Declares(scratch.ct, "png")
                => ensure_png_content_type(scratch.ct) = scratch.ct
          /\ ensure_mp3_content_type(ensure_mp3_content_type(scratch.ct))
                = ensure_mp3_content_type(scratch.ct)
          /\ ensure_png_content_type(ensure_png_content_type(scratch.ct))
                = ensure_png_content_type(scratch.ct)
          /\ CountDefaults(scratch.ct, "mp3") <= 1
                => CountDefaults(ensure_mp3_content_type(
                                    ensure_mp3_content_type(scratch.ct)), "mp3") = 1
          /\ CountDefaults(scratch.ct, "png") <= 1
                => CountDefaults(ensure_png_content_type(
                                    ensure_png_content_type(scratch.ct)), "png") = 1
    /\ (Succeeded /\ CountDefaults(InputCt, "mp3") <= 1
                  /\ CountDefaults(InputCt, "png") <= 1) =>
          /\ CountDefaults(OutputCt, "mp3") = 1
          /\ MimesOf(OutputCt, "mp3") =
                IF Declares(InputCt, "mp3") THEN MimesOf(InputCt, "mp3")
                ELSE {"audio/mpeg"}
          /\ CountDefaults(OutputCt, "png") = 1
          /\ \A i \in 1..Len(InputCt.defaults) :
                \E j \in 1..Len(OutputCt.defaults) :
                    OutputCt.defaults[j] = InputCt.defaults[i]

\* a second run on the output of a first one: mp3 and png were declared by
\* the first run and are still declared once
C6_Witness ==
    /\ Succeeded
    /\ runs = 2
    /\ pptx_file = <<"deck", "_with_audio", ".pptx">>
    /\ ~Declares(fs[<<"deck", ".pptx">>].tree.ct, "mp3")
    /\ Declares(InputCt, "mp3")
    /\ CountDefaults(OutputCt, "mp3") = 1
    /\ CountDefaults(OutputCt, "png") = 1

\* the inputs that make embed fail by contract
BadSlideNumber == slide_num < 1

MissingAudio == mp3_file \notin AudioFiles

MissingPackage == ~Exists(fs0[pptx_file])

SlideNotFound ==
    Exists(fs0[pptx_file]) /\ slide_num \notin DOMAIN fs0[pptx_file].tree.slides

\* C7: a returned embed has failed, with exit code 1, whenever the slide
\* number is below 1, the audio file or the package is missing, or the
\* package has no slide of that number; it has succeeded, with exit code 0,
\* only when none of these holds.
C7_FailureCases ==
    (pc = "returned") =>
        /\ (BadSlideNumber \/ MissingAudio \/ MissingPackage \/ SlideNotFound)
              => (result = FALSE /\ exit_code = 1)
        /\ (result \/ exit_code = 0)
              => ~(BadSlideNumber \/ MissingAudio \/ MissingPackage \/ SlideNotFound)
        /\ exit_code = (IF result THEN 0 ELSE 1)

\* slide MaxSlides + 1 of a readable package, audio present: embed got as far
\* as the slide step and failed there
C7_Witness ==
    /\ pc = "returned"
    /\ ~BadSlideNumber /\ ~MissingAudio /\ ~MissingPackage
    /\ fs0[pptx_file].zipOk
    /\ fs0[pptx_file].tree.ct.ok
    /\ SlideNotFound
    /\ result = FALSE
    /\ exit_code = 1

PassedValidation == ~BadSlideNumber /\ ~MissingAudio /\ ~MissingPackage

\* C8: as long as a run has not succeeded, the file system is what it was
\* when the run was started: a failing run creates or modifies no output.
C8_NoPartialCommit ==
    (pc # "idle" /\ result = FALSE) => fs = fs0

\* a run that failed after extraction, and its output path holds no file
C8_Witness ==
    /\ pc = "returned"
    /\ result = FALSE
    /\ PassedValidation
    /\ fs0[pptx_file].zipOk
    /\ ~Exists(fs[OutputFile(pptx_file)])
    /\ runs = 1

\* C9: when embed has returned the scratch directory does not exist, and a
\* run never extracts into an existing scratch directory.
C9_ScratchRemoved ==
    (pc \in {"idle", "returned", "validate", "extract"}) => ~Exists(scratch)

\* a run that had extracted the package, failed, and returned
C9_Witness ==
    /\ pc = "returned"
    /\ result = FALSE
    /\ PassedValidation
    /\ fs0[pptx_file].zipOk
    /\ ~Exists(scratch)

\* C10: during and after a run the file at the input path has the contents
\* it had when the run started; a successful run has written its result to
\* a different path, the input path without its extension followed by
\* _with_audio.pptx.
C10_InputUntouched ==
    (pc # "idle") =>
        /\ fs[pptx_file] = fs0[pptx_file]
        /\ Succeeded =>
              /\ output_file # pptx_file
              /\ Exists(fs[output_file])
              /\ \E stem \in {pptx_file, SubSeq(pptx_file, 1, Len(pptx_file) - 1)} :
                    /\ output_file = stem \o <<"_with_audio", ".pptx">>
                    /\ \/ pptx_file = stem \o <<".pptx">>
                       \/ pptx_file = stem /\ stem[Len(stem)] # ".pptx"

\* a successful run on a package path without extension
C10_Witness ==
    /\ Succeeded
    /\ pptx_file = <<"deck">>
    /\ output_file = <<"deck", "_with_audio", ".pptx">>
    /\ fs[pptx_file] = fs0[pptx_file]
    /\ fs[output_file] # fs0[output_file]

OutputTree == fs[output_file].tree

OutputEdges == OutputTree.rels[slide_num].edges

\* indices of the edges of a given type and target
EdgesWith(edges, type, target) ==
    {i \in 1..Len(edges) : edges[i].Type = type /\ edges[i].Target = target}

\* C11: after a successful run with media number N into slide S, the
\* relationship part of S in the output holds one audio edge and one media
\* edge that target ../media/media{N}.mp3 and one image edge that targets
\* the icon ../media/image{K}.png; both files are in the output package;
\* the edges the part had before the run are all there, unchanged and in
\* their order.
C11_DualEdgesAndIcon ==
    Succeeded =>
        LET mp3  == <<"media">> \o py_str(media_num) \o <<".mp3">>
            icon == <<"image">> \o py_str(icon_num) \o <<".png">>
        IN  /\ slide_num \in DOMAIN OutputTree.rels
            /\ Cardinality(EdgesWith(OutputEdges, "audio", <<"../media/">> \o mp3)) = 1
            /\ Cardinality(EdgesWith(OutputEdges, "media", <<"../media/">> \o mp3)) = 1
            /\ Cardinality(EdgesWith(OutputEdges, "image", <<"../media/">> \o icon)) = 1
            /\ mp3 \in DOMAIN OutputTree.media.files
            /\ OutputTree.media.files[mp3] = "mp3"
            /\ icon \in DOMAIN OutputTree.media.files
            /\ OutputTree.media.files[icon] = "icon"
            /\ Len(OutputEdges) = Len(InputEdges) + 3
            /\ SubSeq(OutputEdges, 1, Len(InputEdges)) = InputEdges

\* a second embed into the same slide: the layout edge and the three edges
\* of the first run are kept, and media2.mp3 has its two edges
C11_Witness ==
    /\ Succeeded
    /\ runs = 2
    /\ media_num = 2
    /\ Len(InputEdges) = 4
    /\ InputEdges[2].Target = <<"../media/", "media", "1", ".mp3">>
    /\ Len(OutputEdges) = 7
    /\ OutputEdges[5].Target = <<"../media/", "media", "2", ".mp3">>

EdgesOfSlide(tree, k) == IF k \in DOMAIN tree.rels THEN tree.rels[k].edges ELSE <<>>

\* the edges of a slide that carry a given id
EdgesWithId(tree, k, id) ==
    {i \in 1..Len(EdgesOfSlide(tree, k)) : EdgesOfSlide(tree, k)[i].Id = id}

ResolvesTo(tree, k, id, type) ==
    /\ Cardinality(EdgesWithId(tree, k, id)) = 1
    /\ \A i \in EdgesWithId(tree, k, id) : EdgesOfSlide(tree, k)[i].Type = type

\* C12: in every package a run produced, each id referenced by an inserted
\* audio node (audioFile link, p14:media embed, blip embed) resolves to
\* exactly one edge of the slide's relationship part, of type audio, media
\* and image respectively, and for the node this run inserted the edge
\* targets the asset this run placed.
C12_ReferencesResolve ==
    Succeeded =>
        /\ \A k \in DOMAIN OutputTree.slides :
              \A i \in 1..Len(OutputTree.slides[k].nodes) :
                  LET node == OutputTree.slides[k].nodes[i]
                  IN  node.kind = "pic" =>
                          /\ ResolvesTo(OutputTree, k, node.link, "audio")
                          /\ ResolvesTo(OutputTree, k, node.media, "media")
                          /\ ResolvesTo(OutputTree, k, node.blip, "image")
        /\ LET nodes == OutputTree.slides[slide_num].nodes
               node  == nodes[Len(nodes)]
           IN  /\ \A i \in EdgesWithId(OutputTree, slide_num, node.link) :
                     OutputEdges[i].Target = MediaTarget(MediaName(media_num))
               /\ \A i \in EdgesWithId(OutputTree, slide_num, node.media) :
                     OutputEdges[i].Target = MediaTarget(MediaName(media_num))
               /\ \A i \in EdgesWithId(OutputTree, slide_num, node.blip) :
                     OutputEdges[i].Target = MediaTarget(ImageName(icon_num))

====
